---- MODULE Spec2Model ----
(***************************************************************************)
(* A model of the NOAA rainfall tools: station discovery with the full-    *)
(* coverage check (noaa_api.py), the per-year precipitation fetch          *)
(* (noaa_api.py), the cumulative aggregation (rainfall.py) and the stages  *)
(* of the command-line program (main_cum_rainfall.py; SpecMain).           *)
(*                                                                         *)
(* Every call is synchronous and single-threaded; a behaviour of one of    *)
(* the specifications below is one call of one function, stepped through   *)
(* its network round-trips (SpecCalls: calls of the three functions of     *)
(* rainfall.py one after the other on one frame).  The upstream service    *)
(* and the clock are the environment: their answers are chosen             *)
(* nondeterministically.                                                   *)
(*                                                                         *)
(* Scaling.  The calendar keeps its structure (years, leap years, day of   *)
(* year, ordinals) but a common year has YearDays days and a leap year one *)
(* more.  Station latitudes are counted in grid steps of 0.15 degrees, so  *)
(* the half-width 0.3 of the bounding box is Delta = 2 steps, and stations *)
(* lie on the meridian of the centre, where the haversine distance is      *)
(* exactly proportional to the latitude difference.  Precipitation values  *)
(* are integers.                                                           *)
(***************************************************************************)
EXTENDS Integers, Sequences, FiniteSets

(***************************************************************************)
(* Bounds of the model.                                                    *)
(***************************************************************************)
\* days of a common year (a leap year has one more)
YearDays == 2
\* longest list of observation rows one coverage query returns
MaxRows == 3

(***************************************************************************)
(* Python values.                                                          *)
(***************************************************************************)
None == [kind |-> "None"]

Min(a, b) == IF a <= b THEN a ELSE b

Max(a, b) == IF a >= b THEN a ELSE b

Abs(a) == IF a >= 0 THEN a ELSE 0 - a

Return(v) == [kind |-> "return", value |-> v]

Raise(e) == [kind |-> "raise", exc |-> e]

Pending == [kind |-> "pending"]

\* all sequences over S of length at most n
SeqsUpTo(S, n) == UNION {[1..k -> S] : k \in 0..n}

\* seq[:n] of Python: a negative n counts from the end
Slice(seq, n) ==
    IF n >= 0
    THEN SubSeq(seq, 1, Min(n, Len(seq)))
    ELSE SubSeq(seq, 1, Max(Len(seq) + n, 0))

(***************************************************************************)
(* The calendar: datetime.date and datetime.datetime.                      *)
(***************************************************************************)
\* the years of the model: 2024 is a leap year, 2025 is not
Years == {2024, 2025}

IsLeap(y) == y % 4 = 0 /\ (y % 100 # 0 \/ y % 400 = 0)

DaysInYear(y) == IF IsLeap(y) THEN YearDays + 1 ELSE YearDays

\* date(y, m, d), written by its day of the year
date(y, d) == [kind |-> "date", year |-> y, doy |-> d]

\* a datetime on that day (the time of day is never read)
datetime(y, d) == [kind |-> "datetime", year |-> y, doy |-> d]

Jan1(y) == date(y, 1)

Dec31(y) == date(y, DaysInYear(y))

Dates == {date(y, d) : y \in Years, d \in 1..(YearDays + 1)} \cap
         UNION {{date(y, d) : d \in 1..DaysInYear(y)} : y \in Years}

DateTimes == {datetime(x.year, x.doy) : x \in Dates}

RECURSIVE DaysBeforeYear(_)
DaysBeforeYear(y) ==
    IF y <= 2024 THEN 0 ELSE DaysInYear(y - 1) + DaysBeforeYear(y - 1)

\* date.toordinal, counted from the first day of the model's first year
toordinal(x) == DaysBeforeYear(x.year) + x.doy

\* x.timetuple().tm_yday
tm_yday(x) == x.doy

\* the text "YYYY-MM-DD" of a day, as the upstream writes the date of a row
\* (row["date"][:10] cuts the time of day off)
isoformat(x) == [kind |-> "isostr", year |-> x.year, doy |-> x.doy]

\* datetime.strptime(s, "%Y-%m-%d").date()
strptime(s) == date(s.year, s.doy)

\* s.startswith(f"{year}-")
startswith(s, year) == s.year = year

IsoDates == {isoformat(x) : x \in Dates}

\* (a - b).days for two dates
DaysBetween(a, b) == toordinal(a) - toordinal(b)

\* a <= b for two dates
DateLE(a, b) == toordinal(a) <= toordinal(b)

(***************************************************************************)
(* The upstream service as seen through _SESSION.get: the request fails    *)
(* (connection error once the retries are used up) or a response arrives   *)
(* with a status and, when the status is 200, a JSON object that has no    *)
(* "results" key, a null one, or a list.                                   *)
(***************************************************************************)
ConnectionError == [kind |-> "ConnectionError"]

Http(status, body) == [kind |-> "http", status |-> status, body |-> body]

NoKey == [kind |-> "nokey"]

Null == [kind |-> "null"]

List(items) == [kind |-> "list", items |-> items]

ErrorStatuses == {404, 429, 503}

\* the answers to a query whose result lists are drawn from Lists
Responses(Lists) ==
    {ConnectionError} \cup {Http(s, NoKey) : s \in ErrorStatuses}
    \cup {Http(200, NoKey), Http(200, Null)}
    \cup {Http(200, List(l)) : l \in Lists}

\* r = _SESSION.get(...); r.raise_for_status(): the exception raised, or None
RequestError(resp) ==
    IF resp.kind = "ConnectionError" THEN "ConnectionError"
    ELSE IF resp.status >= 400 /\ resp.status < 600 THEN "HTTPError"
    ELSE "None"

\* r.json().get("results", []) or []
JsonResults(resp) ==
    IF resp.body.kind = "list" THEN resp.body.items ELSE <<>>

(***************************************************************************)
(* has_full_prcp_coverage (noaa_api.py 105-153).                           *)
(***************************************************************************)
\* an observation row of the coverage query: only its date is read
CoverageRows == [date : IsoDates]

CoverageResponses == Responses(SeqsUpTo(CoverageRows, MaxRows))

EndDateArgs == {None} \cup Dates \cup DateTimes

\* a faulty variant: an end_date of another year gives December 31 for the current year too
EndDateWrongYear(today, year, end_date) ==
    IF end_date = None
    THEN IF year < today.year THEN Dec31(year) ELSE today
    ELSE IF end_date.year # year
         THEN IF year <= today.year THEN Dec31(year) ELSE today
         ELSE end_date

\* lines 120-125: the end of the window.  Every end_date given is an instance
\* of date (a datetime is one too), so line 123 keeps it as it is.
EffectiveEnd(today, year, end_date) ==
    IF end_date = None
    THEN IF year < today.year THEN Dec31(year) ELSE today
    ELSE IF end_date.year # year
         THEN IF year < today.year THEN Dec31(year) ELSE today
         ELSE end_date

\* line 127: subtracting a date from a datetime is a TypeError
ExpectedDays(end_dt, year) ==
    IF end_dt.kind = "datetime"
    THEN Raise("TypeError")
    ELSE Return(DaysBetween(end_dt, Jan1(year)) + 1)

\* lines 130-138: the bounds of the query
QueryParams(year, end_dt) ==
    [startdate |-> isoformat(Jan1(year)), enddate |-> isoformat(end_dt)]

\* a faulty variant: the rows of other years are counted too
RECURSIVE SeenAnyYear(_, _, _)
SeenAnyYear(rows, year, end_dt) ==
    IF rows = <<>> THEN {}
    ELSE LET d == Head(rows).date
             rest == SeenAnyYear(Tail(rows), year, end_dt)
         IN  IF DateLE(strptime(d), end_dt)
             THEN rest \cup {tm_yday(strptime(d))}
             ELSE rest

\* lines 145-151: the days of the year seen among the rows
RECURSIVE Seen(_, _, _)
Seen(rows, year, end_dt) ==
    IF rows = <<>> THEN {}
    ELSE LET d == Head(rows).date
             rest == Seen(Tail(rows), year, end_dt)
         IN  IF startswith(d, year) /\ DateLE(strptime(d), end_dt)
             THEN rest \cup {tm_yday(strptime(d))}
             ELSE rest

\* lines 139-153: the verdict on a response
CoverageVerdict(resp, year, end_dt, expected_days) ==
    IF RequestError(resp) # "None" THEN Raise(RequestError(resp))
    ELSE LET results == JsonResults(resp)
         IN  IF results = <<>> THEN Return(FALSE)
             ELSE Return(Cardinality(Seen(results, year, end_dt)) >= expected_days)

\* the whole call, for callers: its outcome on the clock's date and the answer
has_full_prcp_coverage(today, year, end_date, resp) ==
    LET end_dt == EffectiveEnd(today, year, end_date)
        expected == ExpectedDays(end_dt, year)
    IN  IF expected.kind = "raise" THEN expected
        ELSE CoverageVerdict(resp, year, end_dt, expected.value)

(***************************************************************************)
(* find_nearby_stations (noaa_api.py 72-102).                              *)
(***************************************************************************)
\* half-width of the bounding box, in grid steps (delta = 0.3 degrees)
Delta == 2
\* longest station list the upstream returns
MaxStations == 3

\* _haversine for two points of one meridian: R times the latitude difference
\* (2 * asin(sqrt(sin(dlat / 2) ** 2)) = |dlat|), in units of R * 0.15 degrees
_haversine(lat1, lat2) == Abs(lat2 - lat1)

\* the id string of the i-th station of an upstream list
StationId(i) == [kind |-> "str", station |-> i]

\* the station lists the upstream can return for the box around lat
StationLists(lat) ==
    {[i \in 1..Len(lats) |-> [id |-> StationId(i), latitude |-> lats[i]]] :
        lats \in SeqsUpTo((lat - Delta)..(lat + Delta), MaxStations)}

StationResponses(lat) == Responses(StationLists(lat))

\* lines 96-97
WithDistance(stations, lat) ==
    [i \in 1..Len(stations) |->
        [id |-> stations[i].id, latitude |-> stations[i].latitude,
         _dist_km |-> _haversine(lat, stations[i].latitude)]]

\* a faulty variant: x goes before the elements of equal key (an unstable sort)
InsertBeforeEqual(s, x) ==
    LET k == Cardinality({i \in 1..Len(s) : s[i]._dist_km < x._dist_km})
    IN  SubSeq(s, 1, k) \o <<x>> \o SubSeq(s, k + 1, Len(s))

\* x put into the sorted list s behind every element whose key is not larger
Insert(s, x) ==
    LET k == Cardinality({i \in 1..Len(s) : s[i]._dist_km <= x._dist_km})
    IN  SubSeq(s, 1, k) \o <<x>> \o SubSeq(s, k + 1, Len(s))

\* sorted(stations, key=lambda x: x["_dist_km"]): a stable sort
RECURSIVE sorted(_)
sorted(s) ==
    IF s = <<>> THEN <<>>
    ELSE Insert(sorted(SubSeq(s, 1, Len(s) - 1)), s[Len(s)])

\* lines 92-102
find_nearby_stations(resp, lat, max_nearby, return_details) ==
    IF RequestError(resp) # "None" THEN Raise(RequestError(resp))
    ELSE LET stations == JsonResults(resp)
             sorted_stations == Slice(sorted(WithDistance(stations, lat)), max_nearby)
         IN  IF return_details
             THEN Return(sorted_stations)
             ELSE Return([i \in 1..Len(sorted_stations) |-> sorted_stations[i].id])

\* the values of max_nearby: any integer the command line or the configuration gives
MaxNearbyArgs == (0 - 1)..(MaxStations + 1)

(***************************************************************************)
(* find_nearby_station (noaa_api.py 156-181).                              *)
(***************************************************************************)
\* what has_full_prcp_coverage(token, sid, year, end_date=end_date) can give:
\* every outcome of the call over the clock's dates and the upstream's answers
CoverageOutcomes ==
    [y \in Years, e \in EndDateArgs |->
        {has_full_prcp_coverage(t, y, e, resp) :
            t \in Dates, resp \in CoverageResponses}]

\* a faulty variant: a failed station query gives None
AfterStationsSwallow(l, r, err) ==
    IF r.kind = "raise"
    THEN [l EXCEPT !.pc = "done", !.outcome = Return(None), !.stations_error = err]
    ELSE [l EXCEPT !.pc = "loop", !.details = r.value, !.stations_error = err]

\* lines 171-172, 181: the candidates, or the failure of the station query
AfterStations(l, r, err) ==
    IF r.kind = "raise"
    THEN [l EXCEPT !.pc = "done", !.outcome = r, !.stations_error = err]
    ELSE [l EXCEPT !.pc = "loop", !.details = r.value, !.stations_error = err]

\* a faulty variant: any answer of the check, True or False, qualifies
AfterCoverageAnyAnswer(l, o) ==
    LET sid == l.details[l.pos].id
        log == Append(l.checked, [id |-> sid, outcome |-> o])
    IN  IF o.kind = "return"
        THEN [l EXCEPT !.pc = "done", !.checked = log, !.outcome = Return(sid)]
        ELSE [l EXCEPT !.checked = log, !.pos = l.pos + 1]

\* a faulty variant: no try block around the check
AfterCoverageNoTry(l, o) ==
    LET sid == l.details[l.pos].id
        log == Append(l.checked, [id |-> sid, outcome |-> o])
    IN  IF o = Return(TRUE)
        THEN [l EXCEPT !.pc = "done", !.checked = log, !.outcome = Return(sid)]
        ELSE IF o.kind = "raise"
        THEN [l EXCEPT !.pc = "done", !.checked = log, !.outcome = o]
        ELSE [l EXCEPT !.checked = log, !.pos = l.pos + 1]

\* lines 174-180: one candidate, o the outcome of its coverage check
AfterCoverage(l, o) ==
    LET sid == l.details[l.pos].id
        log == Append(l.checked, [id |-> sid, outcome |-> o])
    IN  IF o = Return(TRUE)
        THEN [l EXCEPT !.pc = "done", !.checked = log, !.outcome = Return(sid)]
        ELSE [l EXCEPT !.checked = log, !.pos = l.pos + 1]

\* a faulty variant: the last candidate checked is returned
AfterLoopLast(l) ==
    [l EXCEPT !.pc = "done",
              !.outcome = IF l.checked = <<>> THEN Return(None)
                          ELSE Return(l.checked[Len(l.checked)].id)]

\* line 181
AfterLoop(l) == [l EXCEPT !.pc = "done", !.outcome = Return(None)]

(***************************************************************************)
(* pandas.DataFrame: the column names in order and the rows in order.      *)
(***************************************************************************)
DataFrame(columns, rows) == [columns |-> columns, rows |-> rows]

\* df.empty
empty(df) == df.rows = <<>> \/ df.columns = <<>>

HasColumn(df, name) == \E i \in 1..Len(df.columns) : df.columns[i] = name

\* the columns after df[name] = ...: a new column goes to the end
ColumnsWith(columns, name) ==
    IF \E i \in 1..Len(columns) : columns[i] = name
    THEN columns
    ELSE Append(columns, name)

\* pd.to_datetime(text, utc=True) of an ISO date
to_datetime(s) == [kind |-> "Timestamp", year |-> s.year, doy |-> s.doy]

\* Timestamp.dayofyear
dayofyear(ts) == ts.doy

(***************************************************************************)
(* fetch_precip_for_years (noaa_api.py 184-233).                           *)
(***************************************************************************)
\* longest list of years asked for
MaxYearsArg == 2
\* longest list of observation rows one yearly query returns
MaxFetchRows == 2

\* an observation row of a yearly query: it is dated the first or the last
\* day of the year asked for and its "value" key is present (<<v>>) or, in
\* one kind of row, absent (<<>>)
FetchRows(year) ==
    [date : {isoformat(Jan1(year)), isoformat(Dec31(year))}, value : {<<2>>}]
    \cup {[date |-> isoformat(Jan1(year)), value |-> <<>>]}

FetchResponses(year) == Responses(SeqsUpTo(FetchRows(year), MaxFetchRows))

\* lines 206-214: the bounds of the query for one year
YearQuery(year) ==
    [startdate |-> isoformat(Jan1(year)), enddate |-> isoformat(Dec31(year))]

\* a faulty variant: a row without "value" gives no record
RecordsWithValue(rows, year) ==
    LET valued == SelectSeq(rows, LAMBDA row : row.value # <<>>)
    IN  [i \in 1..Len(valued) |->
            [date |-> valued[i].date, year |-> year, prcp |-> valued[i].value[1]]]

\* lines 217-224: the records made of the rows of one answer
Records(rows, year) ==
    [i \in 1..Len(rows) |->
        [date |-> rows[i].date,
         year |-> year,
         prcp |-> IF rows[i].value = <<>> THEN 0 ELSE rows[i].value[1]]]

\* a faulty variant: a failed year is skipped
AfterYearSkipFailed(f, year, resp) ==
    IF RequestError(resp) # "None"
    THEN [f EXCEPT !.idx = f.idx + 1,
                   !.queries = Append(f.queries, YearQuery(year)),
                   !.responses = Append(f.responses, resp)]
    ELSE [f EXCEPT !.idx = f.idx + 1,
                   !.queries = Append(f.queries, YearQuery(year)),
                   !.responses = Append(f.responses, resp),
                   !.all_rows = f.all_rows \o Records(JsonResults(resp), year)]

\* lines 215-224: one year's answer
AfterYear(f, year, resp) ==
    IF RequestError(resp) # "None"
    THEN [f EXCEPT !.pc = "done",
                   !.queries = Append(f.queries, YearQuery(year)),
                   !.responses = Append(f.responses, resp),
                   !.outcome = Raise(RequestError(resp))]
    ELSE [f EXCEPT !.idx = f.idx + 1,
                   !.queries = Append(f.queries, YearQuery(year)),
                   !.responses = Append(f.responses, resp),
                   !.all_rows = f.all_rows \o Records(JsonResults(resp), year)]

\* a faulty variant: no special case for an empty table
FetchedFrameNoEmptyCase(all_rows) ==
    LET df == DataFrame(IF all_rows = <<>> THEN <<>> ELSE <<"date", "year", "prcp">>,
                        all_rows)
    IN  DataFrame(ColumnsWith(df.columns, "doy"),
                  [i \in 1..Len(df.rows) |->
                      [date |-> to_datetime(df.rows[i].date),
                       year |-> df.rows[i].year,
                       prcp |-> df.rows[i].prcp,
                       doy |-> dayofyear(to_datetime(df.rows[i].date))]])

\* lines 226-233: the table returned
FetchedFrame(all_rows) ==
    LET df == DataFrame(IF all_rows = <<>> THEN <<>> ELSE <<"date", "year", "prcp">>,
                        all_rows)
    IN  IF empty(df)
        THEN DataFrame(<<"date", "year", "prcp", "doy">>, <<>>)
        ELSE DataFrame(ColumnsWith(df.columns, "doy"),
                       [i \in 1..Len(df.rows) |->
                           [date |-> to_datetime(df.rows[i].date),
                            year |-> df.rows[i].year,
                            prcp |-> df.rows[i].prcp,
                            doy |-> dayofyear(to_datetime(df.rows[i].date))]])

(***************************************************************************)
(* rainfall.py: _end_doy and prepare_cumulative (9-66).                    *)
(***************************************************************************)
\* longest record set given to the aggregation
MaxRecs == 2

\* the precipitation values of the records
Precips == {0, 2}

\* the record sets: with a doy column (any day number) or with a date column
PrepFrames ==
    {DataFrame(<<"year", "doy", "prcp">>, rs) :
        rs \in SeqsUpTo([year : Years, doy : 1..(YearDays + 1), prcp : Precips],
                        MaxRecs)}
    \cup
    {DataFrame(<<"date", "year", "prcp">>, rs) :
        rs \in SeqsUpTo({[date |-> s, year |-> s.year, prcp |-> p] :
                            s \in IsoDates, p \in Precips}, MaxRecs)}

\* lines 9-18
_end_doy(end_date, today) ==
    LET d1 == IF end_date = None THEN today ELSE end_date
        d2 == IF d1.kind = "datetime" THEN date(d1.year, d1.doy) ELSE d1
    IN  tm_yday(d2)

\* lines 46-49: the day of the year taken from the date column
WithDoy(df) ==
    DataFrame(ColumnsWith(df.columns, "doy"),
              [i \in 1..Len(df.rows) |->
                  [date |-> to_datetime(df.rows[i].date),
                   year |-> df.rows[i].year,
                   prcp |-> df.rows[i].prcp,
                   doy |-> dayofyear(to_datetime(df.rows[i].date))]])

\* the elements of a set of integers in ascending order
RECURSIVE Ascending(_)
Ascending(S) ==
    IF S = {} THEN <<>>
    ELSE LET m == CHOOSE x \in S : \A y \in S : x <= y
         IN  <<m>> \o Ascending(S \ {m})

\* df.groupby("year", sort=True): the keys
GroupKeys(df) == Ascending({df.rows[i].year : i \in 1..Len(df.rows)})

\* lines 57-58: the (doy, prcp) pairs of one year inside the window
InWindow(df, yr, end_doy) ==
    LET g == SelectSeq(df.rows, LAMBDA r : r.year = yr)
        gg == [i \in 1..Len(g) |-> [doy |-> g[i].doy, prcp |-> g[i].prcp]]
    IN  SelectSeq(gg, LAMBDA r : 1 <= r.doy /\ r.doy <= end_doy)

\* line 60: set_index("doy").reindex(range(1, end_doy + 1), fill_value=0.0);
\* pandas refuses to reindex an index with duplicate labels
reindex(gg, end_doy) ==
    IF \E i, j \in 1..Len(gg) : i # j /\ gg[i].doy = gg[j].doy
    THEN Raise("ValueError")
    ELSE Return([k \in 1..end_doy |->
            IF \E i \in 1..Len(gg) : gg[i].doy = k
            THEN [doy |-> k, prcp |-> gg[CHOOSE i \in 1..Len(gg) : gg[i].doy = k].prcp]
            ELSE [doy |-> k, prcp |-> 0]])

\* a faulty variant: the value of the day alone, nothing carried over
SumToDayOnly(values, k) == IF k = 0 THEN 0 ELSE values[k]

\* Series.cumsum
RECURSIVE SumTo(_, _)
SumTo(values, k) == IF k = 0 THEN 0 ELSE values[k] + SumTo(values, k - 1)

cumsum(values) == [k \in 1..Len(values) |-> SumTo(values, k)]

\* lines 57-64: the rows of one year
YearRows(df, yr, end_doy) ==
    LET filled == reindex(InWindow(df, yr, end_doy), end_doy)
    IN  IF filled.kind = "raise" THEN filled
        ELSE LET gg == filled.value
                 cum == cumsum([k \in 1..Len(gg) |-> gg[k].prcp])
             IN  Return([k \in 1..Len(gg) |->
                    [year |-> yr, doy |-> gg[k].doy, prcp |-> gg[k].prcp,
                     cum |-> cum[k]]])

\* pd.concat(out, ignore_index=True)
RECURSIVE concat(_)
concat(out) == IF out = <<>> THEN <<>> ELSE Head(out) \o concat(Tail(out))

\* lines 40-66
prepare_cumulative(df, end_date, today) ==
    IF ~HasColumn(df, "year") \/ ~HasColumn(df, "prcp") THEN Raise("ValueError")
    ELSE IF ~HasColumn(df, "doy") /\ ~HasColumn(df, "date") THEN Raise("ValueError")
    ELSE LET d == IF HasColumn(df, "doy") THEN df ELSE WithDoy(df)
             end_doy == _end_doy(end_date, today)
             keys == GroupKeys(d)
             out == [i \in 1..Len(keys) |-> YearRows(d, keys[i], end_doy)]
         IN  IF empty(d)
             THEN Return(DataFrame(<<"year", "doy", "prcp", "cum">>, <<>>))
             ELSE IF \E i \in 1..Len(out) : out[i].kind = "raise"
             THEN Raise("ValueError")
             ELSE Return(DataFrame(<<"year", "doy", "prcp", "cum">>,
                                   concat([i \in 1..Len(out) |-> out[i].value])))

(***************************************************************************)
(* rainfall.py: the caller's frame and the working copy of a call.         *)
(***************************************************************************)
\* the frame objects a call reaches, and the object its working name
\* (d, work) refers to: at first the frame the caller passed
Objects(df) == [heap |-> [caller |-> df, own |-> None], name |-> "caller"]

\* a faulty variant: no copy is made, the name keeps referring to the
\* object it referred to
copyAlias(o) == o

\* lines 46, 105, 165: frame.copy() makes a new object with the content of
\* the one named, and the name is bound to it
copy(o) == [heap |-> [o.heap EXCEPT !.own = o.heap[o.name]], name |-> "own"]

\* the frame the working name refers to
Named(o) == o.heap[o.name]

\* frame[column] = values: the object the name refers to is written
setitem(o, content) == [o EXCEPT !.heap[o.name] = content]

\* lines 43-49: the objects of prepare_cumulative once the doy is there
PrepareObjects(df) ==
    IF ~HasColumn(df, "year") \/ ~HasColumn(df, "prcp") THEN Objects(df)
    ELSE IF HasColumn(df, "doy") \/ ~HasColumn(df, "date") THEN Objects(df)
    ELSE LET d == copy(Objects(df))
         IN  setitem(d, WithDoy(Named(d)))

(***************************************************************************)
(* rainfall.py: count_rain_days (69-130).                                  *)
(***************************************************************************)
\* the thresholds of the rain-day classification
Thresholds == {0, 2}

\* the messages of the ValueError raised at lines 103 and 117
CountColumnsError ==
    "ValueError: count_rain_days requires DataFrame with columns: ['date', 'prcp']."

EndBeforeStartError == "ValueError: end_date must be on/after start_date."

\* a date that could not be parsed (errors="coerce")
NaT == [kind |-> "NaT"]

\* line 107: the date column parsed, the other columns as they are
WithTimestamps(df) ==
    DataFrame(df.columns,
              [i \in 1..Len(df.rows) |->
                  [df.rows[i] EXCEPT !.date = to_datetime(df.rows[i].date)]])

\* line 108: dropna(subset=["date"]) returns a new frame
dropna(df) == DataFrame(df.columns, SelectSeq(df.rows, LAMBDA r : r.date # NaT))

\* lines 105-108: the objects of count_rain_days before the grouping
CountObjects(df) ==
    LET work == copy(Objects(df))
        parsed == setitem(work, WithTimestamps(Named(work)))
    IN  [heap |-> [parsed.heap EXCEPT !.own = dropna(Named(parsed))],
         name |-> "own"]

\* line 111: groupby(normalized date)["prcp"].sum().sort_index(): the days
\* with a record, ascending, and the precipitation of a day over its records
DailyIndex(work) ==
    Ascending({toordinal(work.rows[i].date) : i \in 1..Len(work.rows)})

\* a faulty variant: the first record of a day stands for the day
DailyFirst(work, day) ==
    LET g == SelectSeq(work.rows, LAMBDA r : toordinal(r.date) = day)
    IN  g[1].prcp

DailySum(work, day) ==
    LET g == SelectSeq(work.rows, LAMBDA r : toordinal(r.date) = day)
    IN  SumTo([k \in 1..Len(g) |-> g[k].prcp], Len(g))

\* a faulty variant: a day counts as rainy from the threshold on
IsRainFromThreshold(prcp, threshold) == prcp >= threshold

\* lines 124 and 192: prcp > threshold
IsRain(prcp, threshold) == prcp > threshold

\* a faulty variant: an end before the start is not refused
CountWindowUnchecked(work, start_date, end_date, threshold) ==
    LET index == DailyIndex(work)
        start == IF start_date # None THEN toordinal(to_datetime(start_date))
                 ELSE index[1]
        end == IF end_date # None THEN toordinal(to_datetime(end_date))
               ELSE index[Len(index)]
        filled == [day \in start..end |->
                      IF \E k \in 1..Len(index) : index[k] = day
                      THEN DailySum(work, day) ELSE 0]
    IN  Return([total_days |-> Cardinality(start..end),
                no_rain_days |-> Cardinality({day \in start..end :
                                    filled[day] <= threshold}),
                rain_days |-> Cardinality({day \in start..end :
                                    IsRain(filled[day], threshold)})])

\* lines 114-130: the window, the days filled in and the three counts
CountWindow(work, start_date, end_date, threshold) ==
    LET index == DailyIndex(work)
        start == IF start_date # None THEN toordinal(to_datetime(start_date))
                 ELSE index[1]
        end == IF end_date # None THEN toordinal(to_datetime(end_date))
               ELSE index[Len(index)]
        filled == [day \in start..end |->
                      IF \E k \in 1..Len(index) : index[k] = day
                      THEN DailySum(work, day) ELSE 0]
    IN  IF end < start THEN Raise(EndBeforeStartError)
        ELSE Return([total_days |-> Cardinality(start..end),
                     no_rain_days |-> Cardinality({day \in start..end :
                                         filled[day] <= threshold}),
                     rain_days |-> Cardinality({day \in start..end :
                                         IsRain(filled[day], threshold)})])

\* a faulty variant: missing columns are passed over like an empty frame
count_rain_daysLenient(df, start_date, end_date, threshold) ==
    IF empty(df) \/ ~HasColumn(df, "date") \/ ~HasColumn(df, "prcp")
    THEN Return([total_days |-> 0, no_rain_days |-> 0, rain_days |-> 0])
    ELSE CountWindow(Named(CountObjects(df)), start_date, end_date, threshold)

\* lines 100-130
count_rain_days(df, start_date, end_date, threshold) ==
    IF empty(df)
    THEN Return([total_days |-> 0, no_rain_days |-> 0, rain_days |-> 0])
    ELSE IF ~HasColumn(df, "date") \/ ~HasColumn(df, "prcp")
    THEN Raise(CountColumnsError)
    ELSE CountWindow(Named(CountObjects(df)), start_date, end_date, threshold)

\* the frame the caller holds when count_rain_days has ended
CountCaller(df) ==
    IF empty(df) \/ ~HasColumn(df, "date") \/ ~HasColumn(df, "prcp") THEN df
    ELSE CountObjects(df).heap.caller

(***************************************************************************)
(* rainfall.py: prepare_cumulative_rain_days (133-198).                    *)
(***************************************************************************)
\* the messages of the ValueError raised at lines 163 and 168
RainColumnsError ==
    "ValueError: prepare_cumulative_rain_days requires 'year' and 'prcp' columns"

RainDayColumnError ==
    "ValueError: prepare_cumulative_rain_days requires 'doy' or 'date' column"

\* lines 165-170: the objects of prepare_cumulative_rain_days once the doy
\* is there (the columns asked for at lines 162 and 167 are present)
RainObjects(df) ==
    LET work == copy(Objects(df))
    IN  IF HasColumn(Named(work), "doy") THEN work
        ELSE setitem(work, WithDoy(Named(work)))

\* a faulty variant: the rows of one year with a day counted as rainy from
\* the threshold on, unlike count_rain_days
YearRainRowsFromThreshold(work, yr, end_doy, threshold) ==
    LET filled == reindex(InWindow(work, yr, end_doy), end_doy)
    IN  IF filled.kind = "raise" THEN filled
        ELSE LET gg == filled.value
                 rain_day == [k \in 1..Len(gg) |->
                                 IF IsRainFromThreshold(gg[k].prcp, threshold)
                                 THEN 1 ELSE 0]
                 cum_rain_days == cumsum(rain_day)
             IN  Return([k \in 1..Len(gg) |->
                    [year |-> yr, doy |-> gg[k].doy, rain_day |-> rain_day[k],
                     cum_rain_days |-> cum_rain_days[k]]])

\* lines 186-195: the rows of one year
YearRainRows(work, yr, end_doy, threshold) ==
    LET filled == reindex(InWindow(work, yr, end_doy), end_doy)
    IN  IF filled.kind = "raise" THEN filled
        ELSE LET gg == filled.value
                 rain_day == [k \in 1..Len(gg) |->
                                 IF IsRain(gg[k].prcp, threshold) THEN 1 ELSE 0]
                 cum_rain_days == cumsum(rain_day)
             IN  Return([k \in 1..Len(gg) |->
                    [year |-> yr, doy |-> gg[k].doy, rain_day |-> rain_day[k],
                     cum_rain_days |-> cum_rain_days[k]]])

\* lines 162-198
prepare_cumulative_rain_days(df, end_date, threshold, today) ==
    IF ~HasColumn(df, "year") \/ ~HasColumn(df, "prcp")
    THEN Raise(RainColumnsError)
    ELSE IF ~HasColumn(df, "doy") /\ ~HasColumn(df, "date")
    THEN Raise(RainDayColumnError)
    ELSE LET work == Named(RainObjects(df))
             end_doy == _end_doy(end_date, today)
             keys == GroupKeys(work)
             out == [i \in 1..Len(keys) |->
                        YearRainRows(work, keys[i], end_doy, threshold)]
         IN  IF empty(work)
             THEN Return(DataFrame(<<"year", "doy", "rain_day", "cum_rain_days">>,
                                   <<>>))
             ELSE IF \E i \in 1..Len(out) : out[i].kind = "raise"
             THEN Raise("ValueError")
             ELSE Return(DataFrame(<<"year", "doy", "rain_day", "cum_rain_days">>,
                                   concat([i \in 1..Len(out) |-> out[i].value])))

\* the frame the caller holds when prepare_cumulative_rain_days has ended
RainCaller(df) ==
    IF ~HasColumn(df, "year") \/ ~HasColumn(df, "prcp") THEN df
    ELSE IF ~HasColumn(df, "doy") /\ ~HasColumn(df, "date")
    THEN copy(Objects(df)).heap.caller
    ELSE RainObjects(df).heap.caller

\* the frame the caller holds when prepare_cumulative has ended
PrepareCaller(df) == PrepareObjects(df).heap.caller

(***************************************************************************)
(* The record sets given to the three functions of rainfall.py.            *)
(***************************************************************************)
\* a record with every field, as fetch_precip_for_years builds it
FullRecords ==
    {[date |-> s, year |-> s.year, prcp |-> p, doy |-> s.doy] :
        s \in IsoDates, p \in Precips}

\* the frame of the given columns over full records
Frame(columns, rs) ==
    DataFrame(columns,
              [i \in 1..Len(rs) |->
                  [c \in {columns[k] : k \in 1..Len(columns)} |-> rs[i][c]]])

\* the column sets that lack a field one of the functions asks for, and the
\* column set of a fetched frame
OtherColumns ==
    {<<"date", "prcp">>, <<"year", "doy", "prcp">>, <<"year", "prcp">>,
     <<"date", "year">>, <<"doy", "prcp">>, <<"date", "year", "prcp", "doy">>}

\* frames of date, year and prcp of any length, frames of the other column
\* sets with no row or one, and pd.DataFrame()
RainFrames ==
    {Frame(<<"date", "year", "prcp">>, rs) : rs \in SeqsUpTo(FullRecords, MaxRecs)}
    \cup
    {DataFrame(<<>>, <<>>)}
    \cup
    {Frame(columns, rs) :
        columns \in OtherColumns, rs \in {<<>>} \cup {<<r>> : r \in FullRecords}}

\* the start and end dates a caller passes
RainDateArgs == {None} \cup Dates

\* the record sets of repeated calls: those dated the first day of a year
CallFrames ==
    {df \in RainFrames :
        \A i \in 1..Len(df.rows) :
            HasColumn(df, "date") =>
                df.rows[i].date \in {isoformat(Jan1(y)) : y \in Years}}

\* the start and end dates of repeated calls
CallStartArgs == {None} \cup {Jan1(y) : y \in Years}

CallEndArgs == {None} \cup {Dec31(y) : y \in Years}

\* the first days of the window a caller may ask for
StartDayArgs == 1..(YearDays + 1)

(***************************************************************************)
(* main_cum_rainfall.py: main (66-157).                                    *)
(***************************************************************************)
\* the values of TOKEN in config.py: not set, the placeholder, a token
Tokens == {"", "YOUR_NOAA_TOKEN", "token"}

\* --station: not given, or a station id
StationArgs == {None, StationId(1)}

\* lines 90-91: _parse_years raises ValueError or returns the list of years,
\* here of at most as many years as the calendar has
ParsedYears ==
    {Raise("ValueError")}
    \cup {Return(ys) : ys \in SeqsUpTo(Years, Cardinality(Years))}

\* line 92: _parse_date gives None or a date
ParsedDates == {None} \cup Dates

\* max(years)
RECURSIVE max(_)
max(ys) == IF Len(ys) = 1 THEN ys[1] ELSE Max(Head(ys), max(Tail(ys)))

\* what find_nearby_station gives main: an error of the station query, None,
\* or the id of a station
SearchOutcomes ==
    {Raise("ConnectionError"), Raise("HTTPError"), Return(None)}
    \cup {Return(StationId(i)) : i \in 1..MaxStations}

\* the coverage checks a search with that outcome can have issued: none
\* before the station query has failed, at least one before an id is returned
CoverageChecks(r) ==
    IF r.kind = "raise" THEN {0}
    ELSE IF r.value = None THEN 0..MaxStations
    ELSE 1..MaxStations

\* the answers to the yearly queries of a run: a failure, or at most one row
MainResponses(year) ==
    {resp \in FetchResponses(year) :
        RequestError(resp) # "None" \/ Len(JsonResults(resp)) <= 1}

\* noaa_api.py 205-224: the states the loop over the years can end in
RECURSIVE FetchLoop(_)
FetchLoop(f) ==
    IF f.pc = "done" \/ f.idx > Len(f.years) THEN {f}
    ELSE UNION {FetchLoop(AfterYear(f, f.years[f.idx], resp)) :
                    resp \in MainResponses(f.years[f.idx])}

\* noaa_api.py 184-233, for callers: the outcomes of a call
fetch_precip_for_years(years) ==
    {IF f.pc = "done" THEN f.outcome ELSE Return(FetchedFrame(f.all_rows)) :
        f \in FetchLoop([pc |-> "loop", years |-> years, idx |-> 1,
                         all_rows |-> <<>>, queries |-> <<>>, responses |-> <<>>,
                         outcome |-> Pending])}

\* a stage function is invoked: its name, the station id passed to it (None
\* for a function that takes none), the station id it returned (None for a
\* function that returns none) and whether the stage failed
Invoked(m, fn, station, returned, failed) ==
    Append(m.calls, [fn |-> fn, station |-> station, returned |-> returned,
                     failed |-> failed])

\* lines 81-84
AfterToken(m) ==
    IF m.token = "" \/ m.token = "YOUR_NOAA_TOKEN"
    THEN [m EXCEPT !.pc = "done", !.outcome = Return(2)]
    ELSE [m EXCEPT !.pc = "config"]

\* lines 86-94: no try around _parse_years, _parse_date and max(years)
AfterConfig(m) ==
    IF m.years.kind = "raise" THEN [m EXCEPT !.pc = "done", !.outcome = m.years]
    ELSE IF m.years.value = <<>>
    THEN [m EXCEPT !.pc = "done", !.outcome = Raise("ValueError")]
    ELSE [m EXCEPT !.pc = "station", !.latest_year = max(m.years.value)]

\* lines 97-99
AfterExplicitStation(m) == [m EXCEPT !.pc = "fetch", !.station_id = m.station]

\* a faulty variant: the None of a search without result is passed on
AfterSearchNoneOn(m, r, n) ==
    IF r.kind = "raise"
    THEN [m EXCEPT !.pc = "done", !.outcome = Return(3),
                   !.coverage_checks = n,
                   !.calls = Invoked(m, "find_nearby_station", None, None, TRUE)]
    ELSE [m EXCEPT !.pc = "fetch", !.station_id = r.value,
                   !.coverage_checks = n,
                   !.calls = Invoked(m, "find_nearby_station", None, r.value, FALSE)]

\* lines 101-117
AfterSearch(m, r, n) ==
    IF r.kind = "raise" \/ r.value = None
    THEN [m EXCEPT !.pc = "done", !.outcome = Return(3),
                   !.coverage_checks = n,
                   !.calls = Invoked(m, "find_nearby_station", None, None, TRUE)]
    ELSE [m EXCEPT !.pc = "fetch", !.station_id = r.value,
                   !.coverage_checks = n,
                   !.calls = Invoked(m, "find_nearby_station", None, r.value, FALSE)]

\* lines 122-130
AfterFetch(m, r) ==
    IF r.kind = "raise"
    THEN [m EXCEPT !.pc = "done", !.outcome = Return(4),
                   !.calls = Invoked(m, "fetch_precip_for_years", m.station_id, None, TRUE)]
    ELSE IF empty(r.value)
    THEN [m EXCEPT !.pc = "done", !.outcome = Return(0), !.df = r.value,
                   !.calls = Invoked(m, "fetch_precip_for_years", m.station_id, None, FALSE)]
    ELSE [m EXCEPT !.pc = "prepare", !.df = r.value,
                   !.calls = Invoked(m, "fetch_precip_for_years", m.station_id, None, FALSE)]

\* lines 133-137
AfterPrepare(m, r) ==
    IF r.kind = "raise"
    THEN [m EXCEPT !.pc = "done", !.outcome = Return(5),
                   !.calls = Invoked(m, "prepare_cumulative", None, None, TRUE)]
    ELSE [m EXCEPT !.pc = "plot",
                   !.calls = Invoked(m, "prepare_cumulative", None, None, FALSE)]

\* lines 140-157
AfterPlot(m, r) ==
    IF r.kind = "raise"
    THEN [m EXCEPT !.pc = "done", !.outcome = Return(6),
                   !.calls = Invoked(m, "plot_cumulative", None, None, TRUE)]
    ELSE [m EXCEPT !.pc = "done", !.outcome = Return(0),
                   !.calls = Invoked(m, "plot_cumulative", None, None, FALSE)]

VARIABLES
    cov,    \* the locals of a has_full_prcp_coverage call
    st,     \* the arguments and the result of a find_nearby_stations call
    loc,    \* the locals of a find_nearby_station call
    fetch,  \* the locals of a fetch_precip_for_years call
    prep,   \* the arguments and the result of a call of rainfall.py
    main    \* the locals of a run of main

vars == <<cov, st, loc, fetch, prep, main>>

Idle == [pc |-> "idle"]

(***************************************************************************)
(* A call of has_full_prcp_coverage.                                       *)
(***************************************************************************)
CovInit ==
    /\ \E y \in Years, e \in EndDateArgs :
        cov = [pc |-> "start", year |-> y, end_date |-> e, today |-> None,
               end_dt |-> None, expected_days |-> 0, query |-> None,
               resp |-> None, outcome |-> Pending]
    /\ st = Idle
    /\ loc = Idle
    /\ fetch = Idle
    /\ prep = Idle
    /\ main = Idle

\* lines 119-127: read the clock, fix the window and the expected day count
CovWindow ==
    /\ cov.pc = "start"
    /\ \E t \in Dates :
        LET end_dt == EffectiveEnd(t, cov.year, cov.end_date)
            expected == ExpectedDays(end_dt, cov.year)
        IN  cov' = IF expected.kind = "raise"
                   THEN [cov EXCEPT !.pc = "done", !.today = t, !.end_dt = end_dt,
                                    !.outcome = expected]
                   ELSE [cov EXCEPT !.pc = "query", !.today = t, !.end_dt = end_dt,
                                    !.expected_days = expected.value]
    /\ UNCHANGED <<st, loc, fetch, prep, main>>

\* lines 129-153: one query, then the count of the days seen
CovQuery ==
    /\ cov.pc = "query"
    /\ \E resp \in CoverageResponses :
        cov' = [cov EXCEPT
                  !.pc = "done",
                  !.query = QueryParams(cov.year, cov.end_dt),
                  !.resp = resp,
                  !.outcome = CoverageVerdict(resp, cov.year, cov.end_dt,
                                              cov.expected_days)]
    /\ UNCHANGED <<st, loc, fetch, prep, main>>

CovNext == CovWindow \/ CovQuery

SpecCoverage == CovInit /\ [][CovNext]_vars

(***************************************************************************)
(* A call of find_nearby_stations.                                         *)
(***************************************************************************)
StInit ==
    /\ \E lat \in {0, 1}, n \in MaxNearbyArgs, rd \in BOOLEAN :
        st = [pc |-> "start", lat |-> lat, max_nearby |-> n, return_details |-> rd,
              resp |-> None, outcome |-> Pending]
    /\ cov = Idle
    /\ loc = Idle
    /\ fetch = Idle
    /\ prep = Idle
    /\ main = Idle

\* lines 85-102: the one query and the ranking
StCall ==
    /\ st.pc = "start"
    /\ \E resp \in StationResponses(st.lat) :
        st' = [st EXCEPT
                 !.pc = "done",
                 !.resp = resp,
                 !.outcome = find_nearby_stations(resp, st.lat, st.max_nearby,
                                                  st.return_details)]
    /\ UNCHANGED <<cov, loc, fetch, prep, main>>

StNext == StCall

SpecStations == StInit /\ [][StNext]_vars

(***************************************************************************)
(* A call of find_nearby_station.                                          *)
(***************************************************************************)
LocInit ==
    /\ \E y \in Years, e \in EndDateArgs :
        loc = [pc |-> "start", year |-> y, end_date |-> e, details |-> <<>>,
               stations_error |-> "None", pos |-> 1, checked |-> <<>>,
               outcome |-> Pending]
    /\ cov = Idle
    /\ st = Idle
    /\ fetch = Idle
    /\ prep = Idle
    /\ main = Idle

\* line 171: the candidates around the point, at most max_nearby of them
LocFindStations ==
    /\ loc.pc = "start"
    /\ \E lat \in {0, 1}, n \in MaxNearbyArgs :
        \E resp \in StationResponses(lat) :
            loc' = AfterStations(loc, find_nearby_stations(resp, lat, n, TRUE),
                                 RequestError(resp))
    /\ UNCHANGED <<cov, st, fetch, prep, main>>

\* lines 173-180: the coverage check of the next candidate
LocCheck ==
    /\ loc.pc = "loop"
    /\ loc.pos <= Len(loc.details)
    /\ \E o \in CoverageOutcomes[loc.year, loc.end_date] :
        loc' = AfterCoverage(loc, o)
    /\ UNCHANGED <<cov, st, fetch, prep, main>>

\* line 181: the candidates are used up
LocNone ==
    /\ loc.pc = "loop"
    /\ loc.pos > Len(loc.details)
    /\ loc' = AfterLoop(loc)
    /\ UNCHANGED <<cov, st, fetch, prep, main>>

LocNext == LocFindStations \/ LocCheck \/ LocNone

SpecLocator == LocInit /\ [][LocNext]_vars

(***************************************************************************)
(* A call of fetch_precip_for_years.                                       *)
(***************************************************************************)
FetchInit ==
    /\ \E ys \in SeqsUpTo(Years, MaxYearsArg) :
        fetch = [pc |-> "loop", years |-> ys, idx |-> 1, all_rows |-> <<>>,
                 queries |-> <<>>, responses |-> <<>>, outcome |-> Pending]
    /\ cov = Idle
    /\ st = Idle
    /\ loc = Idle
    /\ prep = Idle
    /\ main = Idle

\* lines 205-224: the query for the next year
FetchYear ==
    /\ fetch.pc = "loop"
    /\ fetch.idx <= Len(fetch.years)
    /\ \E resp \in FetchResponses(fetch.years[fetch.idx]) :
        fetch' = AfterYear(fetch, fetch.years[fetch.idx], resp)
    /\ UNCHANGED <<cov, st, loc, prep, main>>

\* lines 226-233: every year is fetched
FetchReturn ==
    /\ fetch.pc = "loop"
    /\ fetch.idx > Len(fetch.years)
    /\ fetch' = [fetch EXCEPT !.pc = "done",
                              !.outcome = Return(FetchedFrame(fetch.all_rows))]
    /\ UNCHANGED <<cov, st, loc, prep, main>>

FetchNext == FetchYear \/ FetchReturn

SpecFetch == FetchInit /\ [][FetchNext]_vars

(***************************************************************************)
(* A call of rainfall.py on a record set.                                  *)
(***************************************************************************)
PrepInit ==
    /\ \E df \in PrepFrames, e \in EndDateArgs :
        prep = [pc |-> "start", df |-> df, end_date |-> e, op |-> "none",
                start_day |-> <<>>, today |-> None, outcome |-> Pending]
    /\ cov = Idle
    /\ st = Idle
    /\ loc = Idle
    /\ fetch = Idle
    /\ main = Idle

\* prepare_cumulative(df, end_date=end_date), the clock read by _end_doy
PrepareCumulative ==
    /\ prep.pc = "start"
    /\ \E t \in Dates :
        prep' = [prep EXCEPT !.pc = "done", !.op = "prepare_cumulative",
                             !.today = t,
                             !.outcome = prepare_cumulative(prep.df, prep.end_date, t)]
    /\ UNCHANGED <<cov, st, loc, fetch, main>>

\* prepare_cumulative(df, end_date, start_day=s): line 21 declares the
\* parameters df and end_date only, so binding the call raises TypeError
\* before any line of the body runs
PrepareCumulativeStartDay ==
    /\ prep.pc = "start"
    /\ \E s \in StartDayArgs :
        prep' = [prep EXCEPT !.pc = "done", !.op = "prepare_cumulative",
                             !.start_day = <<s>>,
                             !.outcome = Raise("TypeError")]
    /\ UNCHANGED <<cov, st, loc, fetch, main>>

PrepNext ==
    \/ PrepareCumulative
    \/ PrepareCumulativeStartDay

SpecPrep == PrepInit /\ [][PrepNext]_vars

(***************************************************************************)
(* One call of one of the three functions of rainfall.py.                  *)
(***************************************************************************)
RainInit ==
    /\ \E df \in RainFrames, e \in RainDateArgs :
        prep = [pc |-> "start", df |-> df, end_date |-> e, op |-> "none",
                start_day |-> <<>>, start_date |-> None, threshold |-> 0,
                today |-> None, outcome |-> Pending]
    /\ cov = Idle
    /\ st = Idle
    /\ loc = Idle
    /\ fetch = Idle
    /\ main = Idle

\* prepare_cumulative_rain_days(df, end_date, threshold=th), the clock read
\* by _end_doy
PrepareCumulativeRainDays ==
    /\ prep.pc = "start"
    /\ \E t \in Dates, th \in Thresholds :
        prep' = [prep EXCEPT !.pc = "done", !.op = "prepare_cumulative_rain_days",
                             !.today = t, !.threshold = th,
                             !.outcome = prepare_cumulative_rain_days(
                                             prep.df, prep.end_date, th, t)]
    /\ UNCHANGED <<cov, st, loc, fetch, main>>

\* count_rain_days(df, s, end_date, threshold=th)
CountRainDays ==
    /\ prep.pc = "start"
    /\ \E s \in RainDateArgs, th \in Thresholds :
        prep' = [prep EXCEPT !.pc = "done", !.op = "count_rain_days",
                             !.start_date = s, !.threshold = th,
                             !.outcome = count_rain_days(
                                             prep.df, s, prep.end_date, th)]
    /\ UNCHANGED <<cov, st, loc, fetch, main>>

RainNext ==
    \/ PrepareCumulative
    \/ PrepareCumulativeRainDays
    \/ CountRainDays

SpecRain == RainInit /\ [][RainNext]_vars

(***************************************************************************)
(* Calls of the three functions of rainfall.py, one after the other, on    *)
(* one frame the caller keeps.                                             *)
(***************************************************************************)
CallsInit ==
    /\ \E df \in CallFrames :
        prep = [pc |-> "start", df |-> df, fresh |-> df, before |-> "none",
                op |-> "none", start_day |-> <<>>, start_date |-> None,
                end_date |-> None, threshold |-> 0, today |-> None,
                outcome |-> Pending]
    /\ cov = Idle
    /\ st = Idle
    /\ loc = Idle
    /\ fetch = Idle
    /\ main = Idle

\* the clock is read by _end_doy when no end date is passed
ClockReads(end_date) == IF end_date = None THEN Dates ELSE {None}

\* prepare_cumulative(df, end_date=e) on the caller's frame
CallPrepareCumulative ==
    /\ \E e \in CallEndArgs : \E t \in ClockReads(e) :
        prep' = [prep EXCEPT !.pc = "done", !.before = prep.op,
                             !.op = "prepare_cumulative",
                             !.start_date = None, !.end_date = e,
                             !.threshold = 0, !.today = t,
                             !.df = PrepareCaller(prep.df),
                             !.outcome = prepare_cumulative(prep.df, e, t)]
    /\ UNCHANGED <<cov, st, loc, fetch, main>>

\* prepare_cumulative_rain_days(df, end_date=e, threshold=th) on the
\* caller's frame
CallPrepareCumulativeRainDays ==
    /\ \E e \in CallEndArgs, th \in Thresholds : \E t \in ClockReads(e) :
        prep' = [prep EXCEPT !.pc = "done", !.before = prep.op,
                             !.op = "prepare_cumulative_rain_days",
                             !.start_date = None, !.end_date = e,
                             !.threshold = th, !.today = t,
                             !.df = RainCaller(prep.df),
                             !.outcome = prepare_cumulative_rain_days(
                                             prep.df, e, th, t)]
    /\ UNCHANGED <<cov, st, loc, fetch, main>>

\* count_rain_days(df, s, e, threshold=th) on the caller's frame
CallCountRainDays ==
    /\ \E s \in CallStartArgs, e \in CallEndArgs, th \in Thresholds :
        prep' = [prep EXCEPT !.pc = "done", !.before = prep.op,
                             !.op = "count_rain_days",
                             !.start_date = s, !.end_date = e,
                             !.threshold = th, !.today = None,
                             !.df = CountCaller(prep.df),
                             !.outcome = count_rain_days(prep.df, s, e, th)]
    /\ UNCHANGED <<cov, st, loc, fetch, main>>

CallsNext ==
    \/ CallPrepareCumulative
    \/ CallPrepareCumulativeRainDays
    \/ CallCountRainDays

SpecCalls == CallsInit /\ [][CallsNext]_vars

(***************************************************************************)
(* A run of main.                                                          *)
(***************************************************************************)
MainInit ==
    /\ \E tk \in Tokens, sa \in StationArgs, ys \in ParsedYears, e \in ParsedDates :
        main = [pc |-> "token", token |-> tk, station |-> sa, years |-> ys,
                end_date |-> e, latest_year |-> 0, station_id |-> None,
                df |-> None, coverage_checks |-> 0, calls |-> <<>>,
                outcome |-> Pending]
    /\ cov = Idle
    /\ st = Idle
    /\ loc = Idle
    /\ fetch = Idle
    /\ prep = Idle

\* lines 81-84: the token check
MainToken ==
    /\ main.pc = "token"
    /\ main' = AfterToken(main)
    /\ UNCHANGED <<cov, st, loc, fetch, prep>>

\* lines 86-94: the settings
MainConfig ==
    /\ main.pc = "config"
    /\ main' = AfterConfig(main)
    /\ UNCHANGED <<cov, st, loc, fetch, prep>>

\* lines 97-99: the station given is taken
MainExplicitStation ==
    /\ main.pc = "station"
    /\ main.station # None
    /\ main' = AfterExplicitStation(main)
    /\ UNCHANGED <<cov, st, loc, fetch, prep>>

\* lines 100-117: find_nearby_station and what main does with its outcome
MainSearch ==
    /\ main.pc = "station"
    /\ main.station = None
    /\ \E r \in SearchOutcomes : \E n \in CoverageChecks(r) :
        main' = AfterSearch(main, r, n)
    /\ UNCHANGED <<cov, st, loc, fetch, prep>>

\* lines 122-130: fetch_precip_for_years and what main does with its outcome
MainFetch ==
    /\ main.pc = "fetch"
    /\ \E r \in fetch_precip_for_years(main.years.value) :
        main' = AfterFetch(main, r)
    /\ UNCHANGED <<cov, st, loc, fetch, prep>>

\* lines 133-137: prepare_cumulative and what main does with its outcome
MainPrepare ==
    /\ main.pc = "prepare"
    /\ \E t \in ClockReads(main.end_date) :
        main' = AfterPrepare(main, prepare_cumulative(main.df, main.end_date, t))
    /\ UNCHANGED <<cov, st, loc, fetch, prep>>

\* lines 140-157: plot_cumulative raises or returns the figure
MainPlot ==
    /\ main.pc = "plot"
    /\ \E r \in {Raise("Exception"), Return(None)} :
        main' = AfterPlot(main, r)
    /\ UNCHANGED <<cov, st, loc, fetch, prep>>

MainNext ==
    \/ MainToken
    \/ MainConfig
    \/ MainExplicitStation
    \/ MainSearch
    \/ MainFetch
    \/ MainPrepare
    \/ MainPlot

SpecMain == MainInit /\ [][MainNext]_vars

(***************************************************************************)
(* Station search: find_nearby_station.                                    *)
(***************************************************************************)
Qualified(entry) == entry.outcome = Return(TRUE)

\* C1: the candidates are checked one at a time in the order of `details`,
\* which is ascending in distance; nothing is checked after a check that
\* returned True; the id returned is that of the last candidate checked, whose
\* check returned True, so every nearer candidate was checked and did not
\* qualify and no farther one was checked.
C1_FirstQualifying ==
    LET n == Len(loc.checked)
        m == Len(loc.details)
    IN  /\ n <= m
        /\ \A i \in 1..n : loc.checked[i].id = loc.details[i].id
        /\ \A i \in 1..m : \A j \in i..m :
              loc.details[i]._dist_km <= loc.details[j]._dist_km
        /\ \A i \in 1..(n - 1) : ~Qualified(loc.checked[i])
        /\ (n >= 1 /\ Qualified(loc.checked[n]))
              => loc.pc = "done" /\ loc.outcome = Return(loc.checked[n].id)
        /\ (loc.pc = "done" /\ loc.outcome.kind = "return" /\ loc.outcome # Return(None))
              => /\ n >= 1
                 /\ Qualified(loc.checked[n])
                 /\ loc.outcome = Return(loc.details[n].id)

\* a search that returned the third candidate after two that did not qualify
C1_Witness ==
    /\ loc.pc = "done"
    /\ Len(loc.checked) = 3
    /\ loc.outcome = Return(loc.details[3].id)
    /\ loc.checked[1].outcome = Return(FALSE)
    /\ loc.details[1]._dist_km < loc.details[3]._dist_km

\* C2: a candidate whose coverage check raised is passed over: the call never
\* ends with that error, the loop moves to the next position, and when the
\* call has ended and the failing candidate was not the last one, the next
\* candidate was checked.
C2_ErrorsSkipped ==
    \A i \in 1..Len(loc.checked) :
        loc.checked[i].outcome.kind = "raise"
            => /\ loc.outcome.kind # "raise"
               /\ loc.pos > i
               /\ (loc.pc = "done" /\ i < Len(loc.details)) => Len(loc.checked) > i

\* two checks in a row raised and the third candidate was returned
C2_Witness ==
    /\ loc.pc = "done"
    /\ Len(loc.checked) = 3
    /\ loc.checked[1].outcome.kind = "raise"
    /\ loc.checked[2].outcome.kind = "raise"
    /\ loc.outcome = Return(loc.checked[3].id)

\* C3: once the station query has succeeded the call returns and never
\* raises, and it returns None exactly when every candidate was checked and no
\* check returned True.
C3_NoneIffNoQualifier ==
    (loc.pc = "done" /\ loc.stations_error = "None")
        => /\ loc.outcome.kind = "return"
           /\ (loc.outcome = Return(None))
                 <=> /\ Len(loc.checked) = Len(loc.details)
                     /\ \A i \in 1..Len(loc.checked) : ~Qualified(loc.checked[i])

\* None after one check that returned False and one that raised
C3_Witness ==
    /\ loc.pc = "done"
    /\ loc.outcome = Return(None)
    /\ Len(loc.details) = 2
    /\ loc.checked[1].outcome = Return(FALSE)
    /\ loc.checked[2].outcome.kind = "raise"

\* C4: a failed station query ends the call with that error before any
\* candidate is checked, and the call raises in no other case.
C4_StationFailurePropagates ==
    /\ loc.stations_error # "None"
          => /\ loc.pc = "done"
             /\ loc.outcome = Raise(loc.stations_error)
             /\ loc.checked = <<>>
    /\ loc.outcome.kind = "raise" => loc.stations_error # "None"

\* the station query was answered with an error status
C4_Witness ==
    /\ loc.pc = "done"
    /\ loc.stations_error = "HTTPError"
    /\ loc.outcome = Raise("HTTPError")

(***************************************************************************)
(* Ranking: find_nearby_stations.                                          *)
(***************************************************************************)
\* the ids returned, whichever form was asked for
ReturnedIds ==
    IF st.return_details
    THEN [i \in 1..Len(st.outcome.value) |-> st.outcome.value[i].id]
    ELSE st.outcome.value

\* the distance from the centre of the station the upstream listed k-th
UpstreamDistance(k) ==
    LET la == st.resp.body.items[k].latitude
    IN  IF la >= st.lat THEN la - st.lat ELSE st.lat - la

Ranked ==
    LET ids == ReturnedIds
        n == Len(ids)
        total == Len(JsonResults(st.resp))
        kept == {ids[i].station : i \in 1..n}
    IN  /\ \A i \in 1..n : ids[i].station \in 1..total
        /\ \A i \in 1..n : \A j \in (i + 1)..n :
              /\ UpstreamDistance(ids[i].station) <= UpstreamDistance(ids[j].station)
              /\ UpstreamDistance(ids[i].station) = UpstreamDistance(ids[j].station)
                    => ids[i].station < ids[j].station
        /\ \A k \in (1..total) \ kept : \A i \in kept :
              UpstreamDistance(i) <= UpstreamDistance(k)

\* C5 as stated: the stations returned are sorted ascending by distance, are
\* at most max_nearby, are at least as near as every station left out, and
\* stations at equal distance keep their upstream order, for every max_nearby.
C5_AsStated ==
    (st.pc = "done" /\ st.outcome.kind = "return")
        => /\ Ranked
           /\ Len(ReturnedIds) <= st.max_nearby

\* C5, amended: the ranking holds for every max_nearby; the length is at most
\* max_nearby when max_nearby is not negative, and a negative max_nearby
\* leaves out that many of the farthest stations.
C5_RankedAndTruncated ==
    (st.pc = "done" /\ st.outcome.kind = "return")
        => /\ Ranked
           /\ st.max_nearby >= 0 => Len(ReturnedIds) <= st.max_nearby
           /\ st.max_nearby < 0
                 => Len(ReturnedIds) = Max(Len(JsonResults(st.resp)) + st.max_nearby, 0)

\* two of three stations kept: the two at equal distance, in upstream order,
\* with the first station of the upstream list left out as the farthest
C5_Witness ==
    /\ st.pc = "done"
    /\ st.outcome.kind = "return"
    /\ st.max_nearby = 2
    /\ Len(JsonResults(st.resp)) = 3
    /\ ReturnedIds = <<StationId(2), StationId(3)>>
    /\ UpstreamDistance(2) = UpstreamDistance(3)
    /\ st.resp.body.items[2].latitude # st.resp.body.items[3].latitude

(***************************************************************************)
(* Coverage: has_full_prcp_coverage.                                       *)
(***************************************************************************)
\* the calendar days from January 1 of the year to the effective end date
Window ==
    {x \in Dates : x.year = cov.year /\ toordinal(x) <= toordinal(cov.end_dt)}

Answered == cov.pc = "done" /\ cov.outcome.kind = "return"

\* C6: an answer with no record gives False; any other answer gives True
\* exactly when every day of the window is the date of some returned record.
C6_FullCoverageIffEveryDay ==
    Answered
        => LET rows == JsonResults(cov.resp)
           IN  IF rows = <<>>
               THEN cov.outcome = Return(FALSE)
               ELSE cov.outcome.value
                       <=> \A x \in Window : \E i \in 1..Len(rows) :
                              /\ rows[i].date.year = x.year
                              /\ rows[i].date.doy = x.doy

\* full coverage found among a repeated record and a record of another year
C6_Witness ==
    /\ Answered
    /\ cov.outcome = Return(TRUE)
    /\ Window # {}
    /\ LET rows == JsonResults(cov.resp)
       IN  /\ \E i, j \in 1..Len(rows) : i < j /\ rows[i].date = rows[j].date
           /\ \E i \in 1..Len(rows) : rows[i].date.year # cov.year

\* C7: the effective end date is the end_date given when it lies in the year,
\* and otherwise December 31 for a past year and today for the current year;
\* the expected day count and the query's end are taken from it.
C7_EffectiveEnd ==
    cov.pc # "start"
        => /\ (cov.end_date # None /\ cov.end_date.year = cov.year)
                 => cov.end_dt = cov.end_date
           /\ (cov.end_date = None \/ cov.end_date.year # cov.year)
                 => /\ cov.year < cov.today.year
                          => cov.end_dt = date(cov.year, DaysInYear(cov.year))
                    /\ cov.year = cov.today.year => cov.end_dt = cov.today
           /\ cov.query # None
                 => /\ cov.query.enddate.year = cov.end_dt.year
                    /\ cov.query.enddate.doy = cov.end_dt.doy
                    /\ cov.expected_days =
                          toordinal(cov.end_dt) - toordinal(date(cov.year, 1)) + 1

\* a query for a past year whose end_date argument lay in another year
C7_Witness ==
    /\ cov.pc = "done"
    /\ cov.end_date # None
    /\ cov.end_date.year # cov.year
    /\ cov.year < cov.today.year
    /\ cov.query # None
    /\ cov.query.enddate = isoformat(date(cov.year, DaysInYear(cov.year)))
    /\ cov.expected_days = DaysInYear(cov.year)

(***************************************************************************)
(* Fetch: fetch_precip_for_years.                                          *)
(***************************************************************************)
\* the query of position i was answered with an error
Failed(i) ==
    \/ fetch.responses[i].kind = "ConnectionError"
    \/ /\ fetch.responses[i].kind = "http"
       /\ fetch.responses[i].status # 200

\* the number of rows the upstream returned to the query of position i
RowCount(i) ==
    IF fetch.responses[i].kind = "http" /\ fetch.responses[i].body.kind = "list"
    THEN Len(fetch.responses[i].body.items)
    ELSE 0

\* C8: when the query of any year fails the call raises and returns nothing,
\* whatever the earlier years gave; no further year is queried; and the call
\* raises in no other case.
C8_AllOrNothing ==
    /\ \A i \in 1..Len(fetch.responses) :
          Failed(i)
              => /\ fetch.pc = "done"
                 /\ fetch.outcome.kind = "raise"
                 /\ i = Len(fetch.responses)
    /\ fetch.outcome.kind = "raise"
          => Len(fetch.responses) >= 1 /\ Failed(Len(fetch.responses))

\* the second year's query failed after the first had given records
C8_Witness ==
    /\ fetch.pc = "done"
    /\ Len(fetch.responses) = 2
    /\ RowCount(1) = 2
    /\ Len(fetch.all_rows) = 2
    /\ Failed(2)
    /\ fetch.outcome.kind = "raise"

\* C9: the table returned has the columns date, year, prcp, doy in that order
\* whether it has rows or not, and when no query failed and no query gave a
\* row (or no year was asked for) the call returns that table with no rows.
C9_EmptyTyped ==
    /\ (fetch.pc = "done" /\ fetch.outcome.kind = "return")
          => fetch.outcome.value.columns = <<"date", "year", "prcp", "doy">>
    /\ (/\ fetch.pc = "done"
        /\ \A i \in 1..Len(fetch.responses) : ~Failed(i) /\ RowCount(i) = 0)
          => /\ fetch.outcome.kind = "return"
             /\ fetch.outcome.value.rows = <<>>
             /\ Len(fetch.queries) = Len(fetch.years)

\* two years asked for, one answered without "results", one with an empty list
C9_Witness ==
    /\ fetch.pc = "done"
    /\ Len(fetch.years) = 2
    /\ fetch.responses[1] = Http(200, NoKey)
    /\ fetch.responses[2] = Http(200, List(<<>>))
    /\ fetch.outcome = Return(DataFrame(<<"date", "year", "prcp", "doy">>, <<>>))

(***************************************************************************)
(* Aggregation: prepare_cumulative.                                        *)
(***************************************************************************)
\* the day of the year of the end date asked for
EndDoy == IF prep.end_date = None THEN prep.today.doy ELSE prep.end_date.doy

\* the year and the day of the year of the j-th record given
RecordYear(j) == prep.df.rows[j].year

RecordDoy(j) ==
    IF \E c \in 1..Len(prep.df.columns) : prep.df.columns[c] = "doy"
    THEN prep.df.rows[j].doy
    ELSE prep.df.rows[j].date.doy

\* a call prepare_cumulative(df, end_date) has ended
Prepared ==
    prep.pc = "done" /\ prep.op = "prepare_cumulative" /\ prep.start_day = <<>>

\* the rows are those of a dense table: for every year of the records one row
\* for each day from 1 to the end day and no other row, a day with a record
\* carrying the precipitation of a record of that day and any other day 0,
\* in the order of year and then day
DenseRows(rows) ==
    LET n == Len(prep.df.rows)
        yrs == {RecordYear(j) : j \in 1..n}
    IN  /\ \A y \in yrs : \A d \in 1..EndDoy :
              Cardinality({i \in 1..Len(rows) : rows[i].year = y /\ rows[i].doy = d}) = 1
        /\ \A i \in 1..Len(rows) : rows[i].year \in yrs /\ rows[i].doy \in 1..EndDoy
        /\ \A i \in 1..Len(rows) :
              LET recs == {j \in 1..n : /\ RecordYear(j) = rows[i].year
                                        /\ RecordDoy(j) = rows[i].doy}
              IN  IF recs = {} THEN rows[i].prcp = 0
                  ELSE \E j \in recs : rows[i].prcp = prep.df.rows[j].prcp
        /\ \A i \in 1..Len(rows) : \A j \in (i + 1)..Len(rows) :
              \/ rows[i].year < rows[j].year
              \/ rows[i].year = rows[j].year /\ rows[i].doy < rows[j].doy

\* C10: for any records, also with several records for one year and day, and
\* any end date, prepare_cumulative returns the dense table of the records.
C10_DenseTable ==
    Prepared => /\ prep.outcome.kind = "return"
                /\ DenseRows(prep.outcome.value.rows)

\* two records of one year fall on the same day inside the window
DuplicateDay ==
    \E i, j \in 1..Len(prep.df.rows) :
        /\ i # j
        /\ RecordYear(i) = RecordYear(j)
        /\ RecordDoy(i) = RecordDoy(j)
        /\ RecordDoy(i) <= EndDoy

\* the part of C10 the code keeps: with at most one record for every year
\* and day of the window the dense table is returned, and otherwise the call
\* raises
C10_DenseUnlessDuplicateDay ==
    Prepared => IF DuplicateDay
                THEN prep.outcome = Raise("ValueError")
                ELSE /\ prep.outcome.kind = "return"
                     /\ DenseRows(prep.outcome.value.rows)

\* the call names a first day of the window, or leaves it to the default of 1
StartDay == IF prep.start_day = <<>> THEN 1 ELSE prep.start_day[1]

\* C11: prepare_cumulative takes a first day from the caller (1 when not
\* given): it returns, every row of every year has its day in the closed
\* interval from that first day to the end day, every day of the interval
\* has a row for every year of the records, and a first day after the end
\* day gives no row under the columns year, doy, prcp, cum instead of an
\* error.
C11_WindowFromStartDay ==
    (prep.pc = "done" /\ prep.op = "prepare_cumulative") =>
        \/ Prepared /\ DuplicateDay
        \/ /\ prep.outcome.kind = "return"
           /\ prep.outcome.value.columns = <<"year", "doy", "prcp", "cum">>
           /\ \A i \in 1..Len(prep.outcome.value.rows) :
                 /\ StartDay <= prep.outcome.value.rows[i].doy
                 /\ prep.outcome.value.rows[i].doy <= EndDoy
           /\ \A j \in 1..Len(prep.df.rows) : \A d \in StartDay..EndDoy :
                 \E i \in 1..Len(prep.outcome.value.rows) :
                     /\ prep.outcome.value.rows[i].year = RecordYear(j)
                     /\ prep.outcome.value.rows[i].doy = d
           /\ StartDay > EndDoy => prep.outcome.value.rows = <<>>

\* the part of C11 the code keeps: a call that names no first day returns
\* the days from 1 to the end day, and a call that names one is refused
C11_WindowFromDayOne ==
    (prep.pc = "done" /\ prep.op = "prepare_cumulative") =>
        IF prep.start_day = <<>>
        THEN \/ DuplicateDay
             \/ /\ prep.outcome.kind = "return"
                /\ \A i \in 1..Len(prep.outcome.value.rows) :
                      /\ 1 <= prep.outcome.value.rows[i].doy
                      /\ prep.outcome.value.rows[i].doy <= EndDoy
        ELSE prep.outcome = Raise("TypeError")

\* the precipitation of the rows numbered in S, added up
RECURSIVE Total(_, _)
Total(rows, S) ==
    IF S = {} THEN 0
    ELSE LET i == CHOOSE x \in S : TRUE
         IN  rows[i].prcp + Total(rows, S \ {i})

\* C12: in the table prepare_cumulative returns, the cum of the row of year y
\* and day d is the sum of the prcp of the rows of year y for the days from
\* the first day of the window through d, which is the precipitation of the
\* records of year y dated on those days: no row and no record of another
\* year, and no record outside the window, is counted.
C12_RunningSumPerYear ==
    (Prepared /\ prep.outcome.kind = "return") =>
        LET rows == prep.outcome.value.rows
        IN  \A i \in 1..Len(rows) :
              /\ rows[i].cum =
                    Total(rows, {k \in 1..Len(rows) : /\ rows[k].year = rows[i].year
                                                       /\ rows[k].doy <= rows[i].doy})
              /\ rows[i].cum =
                    Total(prep.df.rows,
                          {j \in 1..Len(prep.df.rows) : /\ RecordYear(j) = rows[i].year
                                                        /\ 1 <= RecordDoy(j)
                                                        /\ RecordDoy(j) <= rows[i].doy})

\* rain on the first day of 2024 and rain in 2025 after the end day: the sum
\* of 2024 is carried to its second day and 2025 ends at 0
C12_Witness ==
    /\ Prepared
    /\ prep.outcome.kind = "return"
    /\ EndDoy >= 2
    /\ \E j \in 1..Len(prep.df.rows) :
          RecordYear(j) = 2025 /\ RecordDoy(j) > EndDoy /\ prep.df.rows[j].prcp = 2
    /\ \E i \in 1..Len(prep.outcome.value.rows) :
          LET r == prep.outcome.value.rows[i]
          IN  r.year = 2024 /\ r.doy = 2 /\ r.prcp = 0 /\ r.cum = 2
    /\ \E i \in 1..Len(prep.outcome.value.rows) :
          LET r == prep.outcome.value.rows[i]
          IN  r.year = 2025 /\ r.doy = EndDoy /\ r.cum = 0

(***************************************************************************)
(* Aggregation: the three functions of rainfall.py on one record set.      *)
(***************************************************************************)
\* a call of the function named has ended
Called(op) == prep.pc = "done" /\ prep.op = op /\ prep.start_day = <<>>

\* the three counts all 0
NoDays == [total_days |-> 0, no_rain_days |-> 0, rain_days |-> 0]

\* C13: an empty record set never makes prepare_cumulative,
\* prepare_cumulative_rain_days or count_rain_days fail, whatever the other
\* arguments are: the first returns no row under the columns year, doy,
\* prcp, cum, the second no row under year, doy, rain_day, cum_rain_days, and
\* the third the counts total, no-rain and rain all 0.
C13_EmptyNeverFails ==
    empty(prep.df) =>
        /\ Called("prepare_cumulative") =>
              prep.outcome = Return(DataFrame(<<"year", "doy", "prcp", "cum">>, <<>>))
        /\ Called("prepare_cumulative_rain_days") =>
              prep.outcome =
                  Return(DataFrame(<<"year", "doy", "rain_day", "cum_rain_days">>, <<>>))
        /\ Called("count_rain_days") => prep.outcome = Return(NoDays)

\* the fields prepare_cumulative and prepare_cumulative_rain_days ask for
PrepareColumns ==
    /\ HasColumn(prep.df, "year")
    /\ HasColumn(prep.df, "prcp")
    /\ HasColumn(prep.df, "doy") \/ HasColumn(prep.df, "date")

\* the part of C13 the code keeps: count_rain_days returns the three zeros
\* for every empty record set, and the two prepare functions return their
\* empty table when the empty frame has the columns they ask for and raise
\* when it has not
C13_EmptyWithColumns ==
    empty(prep.df) =>
        /\ Called("prepare_cumulative") =>
              IF PrepareColumns
              THEN prep.outcome =
                       Return(DataFrame(<<"year", "doy", "prcp", "cum">>, <<>>))
              ELSE prep.outcome.kind = "raise"
        /\ Called("prepare_cumulative_rain_days") =>
              IF PrepareColumns
              THEN prep.outcome =
                       Return(DataFrame(<<"year", "doy", "rain_day", "cum_rain_days">>,
                                        <<>>))
              ELSE prep.outcome.kind = "raise"
        /\ Called("count_rain_days") => prep.outcome = Return(NoDays)

\* the fields count_rain_days asks for
CountColumns == HasColumn(prep.df, "date") /\ HasColumn(prep.df, "prcp")

\* the two prepare functions refuse records without year, without prcp, or
\* without both doy and date
PrepareRefuses ==
    /\ (Called("prepare_cumulative") /\ ~PrepareColumns) =>
          prep.outcome = Raise("ValueError")
    /\ (Called("prepare_cumulative_rain_days") /\ ~PrepareColumns) =>
          prep.outcome =
              IF HasColumn(prep.df, "year") /\ HasColumn(prep.df, "prcp")
              THEN Raise(RainDayColumnError)
              ELSE Raise(RainColumnsError)

\* C14: prepare_cumulative and prepare_cumulative_rain_days fail with a
\* validation error and return no table whenever the records lack year or
\* prcp, or lack both doy and date; count_rain_days fails with a validation
\* error whenever the records lack date or prcp.
C14_AsStated ==
    /\ PrepareRefuses
    /\ (Called("count_rain_days") /\ ~CountColumns) =>
          prep.outcome = Raise(CountColumnsError)

\* C14 as the code has it: the two prepare functions as stated, and
\* count_rain_days fails with the validation error whenever records that are
\* not empty lack date or prcp, while an empty record set gets the three
\* zeros whatever its columns are.
C14_ValidationErrors ==
    /\ PrepareRefuses
    /\ (Called("count_rain_days") /\ ~CountColumns) =>
          prep.outcome = IF empty(prep.df) THEN Return(NoDays)
                         ELSE Raise(CountColumnsError)

\* count_rain_days is refused a record that has a date and no prcp
C14_Witness ==
    /\ Called("count_rain_days")
    /\ prep.df.columns = <<"date", "year">>
    /\ Len(prep.df.rows) = 1
    /\ prep.outcome = Raise(CountColumnsError)

\* what prepare_cumulative returns for the records and the end date of the
\* call, on the same day
SameCallCumulative == prepare_cumulative(prep.df, prep.end_date, prep.today)

\* C15: for the same records and end date prepare_cumulative_rain_days
\* returns the (year, doy) rows of prepare_cumulative in the same order; in
\* each row rain_day is 1 if the zero-filled precipitation of the day is
\* strictly greater than the threshold and 0 otherwise, and cum_rain_days
\* counts the rain days of the year up to the row, so with threshold 0 a
\* filled day and a reported 0 are both no rain days.
C15_RainDaysAlongCumulative ==
    Called("prepare_cumulative_rain_days") =>
        /\ (prep.outcome.kind = "return") <=> (SameCallCumulative.kind = "return")
        /\ prep.outcome.kind = "return" =>
              LET rain == prep.outcome.value.rows
                  cum == SameCallCumulative.value.rows
              IN  /\ Len(rain) = Len(cum)
                  /\ \A i \in 1..Len(rain) :
                        /\ rain[i].year = cum[i].year
                        /\ rain[i].doy = cum[i].doy
                        /\ rain[i].rain_day =
                              IF cum[i].prcp > prep.threshold THEN 1 ELSE 0
                        /\ rain[i].cum_rain_days =
                              Cardinality({k \in 1..i : /\ rain[k].year = rain[i].year
                                                        /\ rain[k].rain_day = 1})

\* threshold 0: rain on day 1, a reported 0 on day 2 and no record for day 3
C15_Witness ==
    /\ Called("prepare_cumulative_rain_days")
    /\ prep.threshold = 0
    /\ prep.outcome.kind = "return"
    /\ Len(prep.df.rows) = 2
    /\ RecordDoy(1) = 1 /\ prep.df.rows[1].prcp = 2
    /\ RecordDoy(2) = 2 /\ prep.df.rows[2].prcp = 0
    /\ RecordYear(1) = RecordYear(2)
    /\ Len(prep.outcome.value.rows) = 3
    /\ \A i \in 1..3 :
          /\ prep.outcome.value.rows[i].rain_day = IF i = 1 THEN 1 ELSE 0
          /\ prep.outcome.value.rows[i].cum_rain_days = 1

\* the day number of the date of the j-th record given
RecordDay(j) == toordinal(prep.df.rows[j].date)

\* the first and the last day of the window of a count_rain_days call: the
\* date passed, or the earliest / latest date of the records
WindowStart ==
    IF prep.start_date # None THEN toordinal(prep.start_date)
    ELSE CHOOSE d \in {RecordDay(j) : j \in 1..Len(prep.df.rows)} :
             \A j \in 1..Len(prep.df.rows) : d <= RecordDay(j)

WindowEnd ==
    IF prep.end_date # None THEN toordinal(prep.end_date)
    ELSE CHOOSE d \in {RecordDay(j) : j \in 1..Len(prep.df.rows)} :
             \A j \in 1..Len(prep.df.rows) : d >= RecordDay(j)

\* count_rain_days was called on records that are not empty and have the
\* date and the precipitation
Counted == Called("count_rain_days") /\ ~empty(prep.df) /\ CountColumns

\* the days of the window with rain: the precipitation of all records of
\* the day together is above the threshold
RainyDays ==
    {day \in WindowStart..WindowEnd :
        Total(prep.df.rows, {j \in 1..Len(prep.df.rows) : RecordDay(j) = day})
            > prep.threshold}

\* C16: for records that are not empty and a window from startDate to
\* endDate (the earliest / latest date of the records when not given),
\* count_rain_days returns as total_days the number of days of the closed
\* window, as rain_days the number of window days whose precipitation summed
\* over the records of the day is strictly above the threshold (0 for a day
\* without record), and as no_rain_days the rest; records dated outside the
\* window change none of the counts.
C16_WindowCounts ==
    (Counted /\ WindowStart <= WindowEnd) =>
        /\ prep.outcome.kind = "return"
        /\ prep.outcome.value.total_days = WindowEnd - WindowStart + 1
        /\ prep.outcome.value.rain_days = Cardinality(RainyDays)
        /\ prep.outcome.value.no_rain_days =
              prep.outcome.value.total_days - prep.outcome.value.rain_days

\* threshold 2 and a window of three days (into the next year): two records
\* of 2 on one day make it the one rain day, the other two days have no record
C16_Witness ==
    /\ Counted
    /\ prep.threshold = 2
    /\ Len(prep.df.rows) = 2
    /\ RecordDay(1) = RecordDay(2)
    /\ prep.df.rows[1].prcp = 2 /\ prep.df.rows[2].prcp = 2
    /\ prep.start_date # None /\ prep.end_date # None
    /\ prep.start_date.year < prep.end_date.year
    /\ prep.outcome = Return([total_days |-> 3, no_rain_days |-> 2, rain_days |-> 1])

\* the caller passed both dates and the end is before the start
EndPrecedesStart ==
    /\ prep.start_date # None
    /\ prep.end_date # None
    /\ toordinal(prep.end_date) < toordinal(prep.start_date)

\* C17: count_rain_days fails with the range error when the end date is
\* before the start date.
C17_AsStated ==
    (Called("count_rain_days") /\ EndPrecedesStart) =>
        prep.outcome = Raise(EndBeforeStartError)

\* C17 as the code has it: for records that are not empty and have date and
\* prcp, count_rain_days fails with the range error exactly when the end of
\* the window (given or the latest date of the records) is before its start
\* (given or the earliest date); an empty record set gets the three zeros
\* and records without date or prcp the validation error, whatever the
\* dates are.
C17_EndBeforeStart ==
    /\ Counted =>
          ((prep.outcome = Raise(EndBeforeStartError)) <=> (WindowEnd < WindowStart))
    /\ (Called("count_rain_days") /\ ~Counted /\ EndPrecedesStart) =>
          prep.outcome = IF empty(prep.df) THEN Return(NoDays)
                         ELSE Raise(CountColumnsError)

\* a record, and an end date before the start date
C17_Witness ==
    /\ Counted
    /\ EndPrecedesStart
    /\ prep.outcome = Raise(EndBeforeStartError)

(***************************************************************************)
(* Yearly fetch: the queries and the records of fetch_precip_for_years.    *)
(***************************************************************************)
\* the number of rows the upstream returned to the queries before position i
RECURSIVE RowsBefore(_)
RowsBefore(i) == IF i = 1 THEN 0 ELSE RowsBefore(i - 1) + RowCount(i - 1)

\* C18: fetch_precip_for_years issues one query per year asked for, in the
\* order of the years argument, each from January 1 to December 31 of its
\* year, and returns one record for every observation row the upstream
\* returned and no other, in the order of the queries and of the rows: the
\* record has the year asked for, the date of the row and the day of the
\* year of that date.
C18_OneQueryPerYear ==
    /\ Len(fetch.queries) <= Len(fetch.years)
    /\ \A i \in 1..Len(fetch.queries) :
          /\ fetch.queries[i].startdate = isoformat(date(fetch.years[i], 1))
          /\ fetch.queries[i].enddate =
                isoformat(date(fetch.years[i], DaysInYear(fetch.years[i])))
    /\ (fetch.pc = "done" /\ fetch.outcome.kind = "return") =>
          LET rows == fetch.outcome.value.rows
          IN  /\ Len(fetch.queries) = Len(fetch.years)
              /\ Len(rows) = RowsBefore(Len(fetch.years) + 1)
              /\ \A i \in 1..Len(fetch.years) : \A k \in 1..RowCount(i) :
                    LET r == rows[RowsBefore(i) + k]
                        u == fetch.responses[i].body.items[k]
                    IN  /\ r.year = fetch.years[i]
                        /\ r.date.year = u.date.year
                        /\ r.date.doy = u.date.doy
                        /\ r.doy = u.date.doy

\* 2025 asked for before 2024: two rows for 2025, one of the last day of
\* 2024 for 2024, three records in that order
C18_Witness ==
    /\ fetch.pc = "done"
    /\ fetch.outcome.kind = "return"
    /\ fetch.years = <<2025, 2024>>
    /\ RowCount(1) = 2
    /\ RowCount(2) = 1
    /\ Len(fetch.outcome.value.rows) = 3
    /\ fetch.outcome.value.rows[3].year = 2024
    /\ fetch.outcome.value.rows[3].doy = DaysInYear(2024)

\* the records are not empty, have date, year and prcp, are all of the year
\* of the end date given, and no two of them are of the same day
OneYearOneRecordPerDay ==
    /\ prep.end_date # None
    /\ ~empty(prep.df)
    /\ CountColumns
    /\ HasColumn(prep.df, "year")
    /\ \A j \in 1..Len(prep.df.rows) :
          /\ RecordYear(j) = prep.end_date.year
          /\ prep.df.rows[j].date.year = prep.end_date.year
    /\ \A i, j \in 1..Len(prep.df.rows) : i # j => RecordDay(i) # RecordDay(j)

\* what count_rain_days returns for the records of the call from January 1
\* of the year of the end date to the end date, with the same threshold
SameCallCount ==
    count_rain_days(prep.df, date(prep.end_date.year, 1), prep.end_date,
                    prep.threshold)

\* C19: for records of one year that are not empty, with at most one record
\* per day, a threshold t and an end date E in that year, the cum_rain_days
\* of the last row (the day of E) of prepare_cumulative_rain_days(records, E,
\* threshold=t) is the rain_days of count_rain_days(records, January 1, E,
\* threshold=t); a day whose precipitation equals t is no rain day for both.
C19_SameClassification ==
    (Called("prepare_cumulative_rain_days") /\ OneYearOneRecordPerDay) =>
        /\ prep.outcome.kind = "return"
        /\ SameCallCount.kind = "return"
        /\ LET rows == prep.outcome.value.rows
           IN  /\ rows[Len(rows)].doy = prep.end_date.doy
               /\ rows[Len(rows)].cum_rain_days = SameCallCount.value.rain_days

\* threshold 2: a record of 2 and a record of 0 before the end date, and
\* neither function counts a rain day; the window has three days
C19_Witness ==
    /\ Called("prepare_cumulative_rain_days")
    /\ OneYearOneRecordPerDay
    /\ prep.threshold = 2
    /\ Len(prep.df.rows) = 2
    /\ prep.df.rows[1].prcp = 2
    /\ prep.df.rows[2].prcp = 0
    /\ RecordDoy(1) < prep.end_date.doy
    /\ RecordDoy(2) < prep.end_date.doy
    /\ SameCallCount = Return([total_days |-> 3, no_rain_days |-> 3, rain_days |-> 0])
    /\ prep.outcome.value.rows[3].cum_rain_days = 0

(***************************************************************************)
(* Aggregation: the caller's frame over repeated calls.                    *)
(***************************************************************************)
\* what the last call returns or raises on a fresh copy of the records
OnFreshCopy ==
    IF prep.op = "prepare_cumulative"
    THEN prepare_cumulative(prep.fresh, prep.end_date, prep.today)
    ELSE IF prep.op = "prepare_cumulative_rain_days"
    THEN prepare_cumulative_rain_days(prep.fresh, prep.end_date, prep.threshold,
                                      prep.today)
    ELSE count_rain_days(prep.fresh, prep.start_date, prep.end_date, prep.threshold)

\* C20: the three functions leave the caller's record set as it was on every
\* path (a table returned, an empty result, an error): no field added, no
\* date rewritten, no row added, removed or moved; so after any calls in any
\* order a call gives what it gives on a fresh copy of the records.
C20_CallerFrameUnchanged ==
    /\ prep.df = prep.fresh
    /\ prep.pc = "done" => prep.outcome = OnFreshCopy

\* count_rain_days after prepare_cumulative on two records with a date and
\* no doy: both calls copy the frame and parse the dates of the copy
C20_Witness ==
    /\ prep.pc = "done"
    /\ prep.before = "prepare_cumulative"
    /\ prep.op = "count_rain_days"
    /\ prep.df.columns = <<"date", "year", "prcp">>
    /\ Len(prep.df.rows) = 2
    /\ prep.df.rows[1].date.kind = "isostr"
    /\ prep.outcome.kind = "return"
    /\ prep.outcome.value.total_days >= 2

(***************************************************************************)
(* Coverage: no full coverage without a day seen.                          *)
(***************************************************************************)
\* some returned record is dated on a day of the window
DaySeen ==
    \E i \in 1..Len(JsonResults(cov.resp)) : \E x \in Window :
        /\ JsonResults(cov.resp)[i].date.year = x.year
        /\ JsonResults(cov.resp)[i].date.doy = x.doy

\* C21: for every year and end_date, also a year after the current one,
\* has_full_prcp_coverage returns True only when the expected day count is
\* at least 1 and some returned record is dated on a day from January 1 of
\* the year to the effective end date: full coverage is never reported for
\* a window of which no day was seen.
C21_TrueOnlyWithDaySeen ==
    (Answered /\ cov.outcome = Return(TRUE)) =>
        /\ cov.expected_days >= 1
        /\ DaySeen

\* the part of C21 the code keeps: when the effective end date lies in the
\* year asked for, True is returned only with an expected day count of at
\* least 1 and a day seen; the effective end date of a year after the
\* current one is today, which lies before the year
C21_TrueOnlyWithDaySeenInYear ==
    (Answered /\ cov.outcome = Return(TRUE)) =>
        IF cov.end_dt.year = cov.year
        THEN cov.expected_days >= 1 /\ DaySeen
        ELSE cov.year > cov.today.year /\ cov.end_dt = cov.today

(***************************************************************************)
(* main: the order of the stages and the station that is fetched.          *)
(***************************************************************************)
\* the exit code of a stage; the token check, which invokes nothing, has 2
ExitCode(fn) ==
    CASE fn = "find_nearby_station" -> 3
      [] fn = "fetch_precip_for_years" -> 4
      [] fn = "prepare_cumulative" -> 5
      [] fn = "plot_cumulative" -> 6

TokenRefused == main.token = "" \/ main.token = "YOUR_NOAA_TOKEN"

\* the stage function invoked first: the search unless a station is given
FirstStage ==
    IF main.station = None THEN "find_nearby_station" ELSE "fetch_precip_for_years"

\* call i follows a call of the stage before it that has not failed
InOrder(i) ==
    IF i = 1 THEN main.calls[1].fn = FirstStage
    ELSE /\ ExitCode(main.calls[i].fn) = ExitCode(main.calls[i - 1].fn) + 1
         /\ ~main.calls[i - 1].failed

\* the station passed to call i is the one given, or the one the search before
\* it has returned after at least one coverage check
StationGivenOrFound(i) ==
    /\ main.calls[i].station # None
    /\ IF main.station # None THEN main.calls[i].station = main.station
       ELSE /\ i > 1
            /\ main.calls[i - 1].fn = "find_nearby_station"
            /\ main.calls[i - 1].returned = main.calls[i].station
            /\ main.coverage_checks >= 1

\* C22: main invokes its stages in the order token check, station selection,
\* fetch, prepare, plot; a stage that fails is the last one invoked and main
\* has returned its exit code (2 for the token check, then 3, 4, 5, 6);
\* fetch_precip_for_years is passed the station given on the command line or
\* the one find_nearby_station returned, never None; with a station given
\* there is neither a search nor a coverage check.
C22_StagesInOrder ==
    /\ (main.pc # "token" /\ TokenRefused) =>
            main.outcome = Return(2) /\ main.calls = <<>>
    /\ main.outcome = Return(2) => TokenRefused
    /\ \A i \in 1..Len(main.calls) :
        /\ InOrder(i)
        /\ main.calls[i].failed =>
            /\ i = Len(main.calls)
            /\ main.pc = "done"
            /\ main.outcome = Return(ExitCode(main.calls[i].fn))
        /\ main.calls[i].fn = "fetch_precip_for_years" => StationGivenOrFound(i)
    /\ \A code \in 3..6 : main.outcome = Return(code) =>
        /\ main.calls # <<>>
        /\ main.calls[Len(main.calls)].failed
        /\ ExitCode(main.calls[Len(main.calls)].fn) = code
    /\ main.station # None =>
        /\ main.coverage_checks = 0
        /\ \A i \in 1..Len(main.calls) : main.calls[i].fn # "find_nearby_station"

\* a run without a station given that found one, fetched it and failed to
\* prepare the table
C22_Witness ==
    /\ main.pc = "done"
    /\ main.station = None
    /\ main.outcome = Return(5)
    /\ Len(main.calls) = 3

====
